---------------------------- MODULE Spec2Model ----------------------------
(***************************************************************************)
(* Crank-Nicolson option pricer: the rate curve (InterestRate), the        *)
(* tridiagonal system (Tridiag, Lower, Upper) and the pricing engine       *)
(* (Option), modelled as state machines.                                   *)
(*                                                                         *)
(* A C++ double is modelled by an exact rational <<n, d>> with d >= 1 and  *)
(* gcd(|n|, d) = 1, extended with the IEEE-754 special values              *)
(* <<1, 0>> (+inf), <<-1, 0>> (-inf) and <<0, 0>> (NaN).  Rounding and     *)
(* signed zeros are not modelled.                                          *)
(***************************************************************************)
EXTENDS Integers, Sequences, FiniteSets, TLC

VARIABLES
    pc,               \* control position of the program under check
    exercise_type,    \* constructor argument (int) behind the bool field
    contract_type_, exercise_type_, T_, K_, T0_, S0_, volatility_,
    time_mesh_, spot_mesh_, interest_rate_, tol_, w_,   \* Option fields
    dT, dS, F0, FM,   \* Option: derived mesh steps and boundary values
    grid,             \* Option::grid, grid[row][col], rows 0..M, cols 0..N-1
    F,                \* Option::F, the working vector (1-based sequence)
    jj,               \* time-loop index of european_price / american_price
    RHS,              \* local RHS of the running American step
    error,            \* local error of the running SOR loop
    sweeps,           \* sweeps done by the SOR loop of the running step
    thrown,           \* the exception that left the program, or "none"
    written,          \* history: the grid columns written, in order
    call,             \* the call in progress and its inputs; for vega, rho
                      \* and solve also the Option the call was made on
    ret               \* what the last call returned

optFields == <<exercise_type, contract_type_, exercise_type_, T_, K_, T0_, S0_,
               volatility_, time_mesh_, spot_mesh_, interest_rate_, tol_, w_>>
optDerived == <<dT, dS, F0, FM>>
optWork == <<grid, F, jj, RHS, error, sweeps, written>>
vars == <<pc, optFields, optDerived, optWork, thrown, call, ret>>

-----------------------------------------------------------------------------
(* double arithmetic *)

Abs(n) == IF n < 0 THEN -n ELSE n

Sign(n) == IF n < 0 THEN -1 ELSE IF n > 0 THEN 1 ELSE 0

RECURSIVE GCD(_, _)
GCD(a, b) == IF b = 0 THEN a ELSE GCD(b, a % b)

\* The double n/d; a zero divisor gives the IEEE result of n/0.
Dbl(n, d) ==
    IF d = 0 THEN <<Sign(n), 0>>
    ELSE LET g == GCD(Abs(n), Abs(d))
         IN  <<Sign(d) * (n \div g), Abs(d) \div g>>

Dnum(k) == <<k, 1>>
NaN == <<0, 0>>
PInf == <<1, 0>>
NInf == <<-1, 0>>
IsNaN(x) == x = NaN
IsInf(x) == x[2] = 0 /\ x[1] # 0
IsFinite(x) == x[2] # 0

DNeg(x) == <<-x[1], x[2]>>

DAbs(x) == IF x[1] < 0 THEN DNeg(x) ELSE x

DAdd(x, y) ==
    IF IsNaN(x) \/ IsNaN(y) THEN NaN
    ELSE IF IsInf(x) THEN (IF IsInf(y) /\ y # x THEN NaN ELSE x)
    ELSE IF IsInf(y) THEN y
    ELSE LET g == GCD(x[2], y[2])
             l == (x[2] \div g) * y[2]
         IN  Dbl(x[1] * (l \div x[2]) + y[1] * (l \div y[2]), l)

DSub(x, y) == DAdd(x, DNeg(y))

DMul(x, y) ==
    IF IsNaN(x) \/ IsNaN(y) THEN NaN
    ELSE IF IsInf(x) \/ IsInf(y)
         THEN (IF x[1] = 0 \/ y[1] = 0 THEN NaN ELSE <<Sign(x[1]) * Sign(y[1]), 0>>)
    ELSE LET g1 == GCD(Abs(x[1]), y[2])
             g2 == GCD(Abs(y[1]), x[2])
         IN  Dbl((x[1] \div g1) * (y[1] \div g2), (x[2] \div g2) * (y[2] \div g1))

DDiv(x, y) ==
    IF IsNaN(x) \/ IsNaN(y) THEN NaN
    ELSE IF IsInf(y) THEN (IF IsInf(x) THEN NaN ELSE Dnum(0))
    ELSE IF y[1] = 0 THEN (IF IsInf(x) THEN x ELSE <<Sign(x[1]), 0>>)
    ELSE DMul(x, <<Sign(y[1]) * y[2], Abs(y[1])>>)

\* x < y on doubles: false as soon as one side is NaN.
DLt(x, y) ==
    IF IsNaN(x) \/ IsNaN(y) THEN FALSE
    ELSE IF x = y THEN FALSE
    ELSE IF x = NInf \/ y = PInf THEN TRUE
    ELSE IF x = PInf \/ y = NInf THEN FALSE
    ELSE LET g == GCD(x[2], y[2])
         IN  x[1] * (y[2] \div g) < y[1] * (x[2] \div g)

DLe(x, y) == ~IsNaN(x) /\ ~IsNaN(y) /\ (x = y \/ DLt(x, y))
DGt(x, y) == DLt(y, x)
DGe(x, y) == DLe(y, x)

\* std::max(a, b) is (a < b) ? b : a.
DMax(a, b) == IF DLt(a, b) THEN b ELSE a

\* std::round: to the nearest integer, halves away from zero.
DRound(x) ==
    IF x[1] >= 0 THEN (2 * x[1] + x[2]) \div (2 * x[2])
    ELSE -((2 * (-x[1]) + x[2]) \div (2 * x[2]))

\* The truncating conversion of a double to an index.
DTrunc(x) == IF x[1] >= 0 THEN x[1] \div x[2] ELSE -((-x[1]) \div x[2])

-----------------------------------------------------------------------------
(* InterestRate *)

\* A value returned, or an exception thrown.
Val(v) == [ok |-> TRUE, val |-> v]
Throw(e) == [ok |-> FALSE, exc |-> e]

Within(t, lo, hi) == DGe(t, lo) /\ DLe(t, hi)

\* Interpolate with the two weights exchanged.
InterpolateSwapped(t, cur, next) ==
    DDiv(DAdd(DMul(DSub(t, cur[1]), cur[2]),
              DMul(DSub(next[1], t), next[2])),
         DSub(next[1], cur[1]))

\* The interpolation at t on the segment from point cur to point next.
Interpolate(t, cur, next) ==
    DDiv(DAdd(DMul(DSub(t, cur[1]), next[2]),
              DMul(DSub(next[1], t), cur[2])),
         DSub(next[1], cur[1]))

RECURSIVE RateFrom(_, _, _)
RateFrom(c, t, i) ==
    IF i >= Len(c) THEN Throw("InvalidTime")
    ELSE IF Within(t, c[i][1], c[i + 1][1])
         THEN Val(Interpolate(t, c[i], c[i + 1]))
         ELSE RateFrom(c, t, i + 1)

\* InterestRate::operator()(t) on the control points c.
Rate(c, t) == RateFrom(c, t, 1)


Half(x) == DDiv(x, Dnum(2))

\* The segment (index of its left point) on which integral(t0, tf) stops its
\* first scan: the first one holding t0, the last one when none does.
RECURSIVE Stop1(_, _, _)
Stop1(c, t0, i) ==
    IF i >= Len(c) - 1 \/ Within(t0, c[i][1], c[i + 1][1]) THEN i
    ELSE Stop1(c, t0, i + 1)

\* IntegralTail closing the last, partial segment with the rate of its right
\* end point instead of its left one.
RECURSIVE IntegralTailRightEnd(_, _, _, _)
IntegralTailRightEnd(c, tf, i, sum) ==
    IF i >= Len(c) THEN Val(sum)
    ELSE IF Within(tf, c[i][1], c[i + 1][1])
         THEN LET rf == Rate(c, tf)
              IN  IF ~rf.ok THEN rf
                  ELSE Val(DAdd(sum, Half(DMul(DAdd(rf.val, c[i + 1][2]),
                                               DSub(tf, c[i][1])))))
         ELSE IntegralTailRightEnd(c, tf, i + 1,
                           DAdd(sum, Half(DMul(DAdd(c[i][2], c[i + 1][2]),
                                               DSub(c[i + 1][1], c[i][1])))))

\* The second scan of integral(t0, tf), from point i with the sum so far.
RECURSIVE IntegralTail(_, _, _, _)
IntegralTail(c, tf, i, sum) ==
    IF i >= Len(c) THEN Val(sum)
    ELSE IF Within(tf, c[i][1], c[i + 1][1])
         THEN LET rf == Rate(c, tf)
              IN  IF ~rf.ok THEN rf
                  ELSE Val(DAdd(sum, Half(DMul(DAdd(rf.val, c[i][2]),
                                               DSub(tf, c[i][1])))))
         ELSE IntegralTail(c, tf, i + 1,
                           DAdd(sum, Half(DMul(DAdd(c[i][2], c[i + 1][2]),
                                               DSub(c[i + 1][1], c[i][1])))))

\* InterestRate::integral(t0, tf): closed-form areas segment by segment.
Integral(c, t0, tf) ==
    LET s1 == Stop1(c, t0, 1)
        nx == c[s1 + 1]
        r0 == Rate(c, t0)
        rf == Rate(c, tf)
    IN  IF DLe(tf, nx[1])
        THEN IF ~r0.ok THEN r0 ELSE IF ~rf.ok THEN rf
             ELSE Val(Half(DMul(DAdd(r0.val, rf.val), DSub(tf, t0))))
        ELSE IF ~r0.ok THEN r0
             ELSE IntegralTail(c, tf, s1 + 1,
                               Half(DMul(DAdd(r0.val, nx[2]), DSub(nx[1], t0))))

\* The unqualified abs(x) of a double x.  The headers of the build decide the
\* overload: the floating-point one, or int abs(int) on x converted to int.
\* call.abs holds the overload of the build under check; x is finite on
\* every curve of finite control points.
AbsOverloads == {"double", "int"}
abs(x) == IF call.abs = "int" THEN Dnum(Abs(DTrunc(x))) ELSE DAbs(x)

\* support_integral(r1, r2, t1, t2): the unsigned area under one segment.
support_integral(r1, r2, t1, t2) ==
    IF (DGe(r1, Dnum(0)) /\ DGe(r2, Dnum(0))) \/ (DLe(r1, Dnum(0)) /\ DLe(r2, Dnum(0)))
    THEN Half(DMul(abs(DAdd(r1, r2)), DSub(t2, t1)))
    ELSE LET x == DDiv(DSub(DMul(t1, r2), DMul(t2, r1)), DSub(r2, r1))
             tri1 == abs(Half(DMul(DSub(x, t1), r1)))
             tri2 == abs(Half(DMul(DSub(t2, x), r2)))
         IN  DAdd(tri1, tri2)

\* The loop of InterestRate::integral(t0) from segment i on, res so far.
RECURSIVE IntegralFrom(_, _, _, _)
IntegralFrom(c, t0, i, res) ==
    IF i >= Len(c) THEN Val(res)
    ELSE IF Within(t0, c[i][1], c[i + 1][1])
         THEN LET r == Rate(c, t0)
              IN  IF ~r.ok THEN r
                  ELSE IntegralFrom(c, t0, i + 1,
                           DAdd(res, support_integral(r.val, c[i + 1][2],
                                                      t0, c[i + 1][1])))
         ELSE IF DGe(c[i][1], t0)
         THEN IntegralFrom(c, t0, i + 1,
                  DAdd(res, support_integral(c[i][2], c[i + 1][2],
                                             c[i][1], c[i + 1][1])))
         ELSE IntegralFrom(c, t0, i + 1, res)

\* InterestRate::integral(t0), the one-argument integral Option calls.
Integral1(c, t0) == IntegralFrom(c, t0, 1, Dnum(0))

\* std::exp.  exp(x) is irrational for every rational x # 0, so it is
\* modelled by a rational function that agrees with it at 0, +inf, -inf and
\* NaN and keeps what the checks rest on: it is positive, strictly
\* increasing, and Exp(-x) = 1 / Exp(x).
Exp(x) ==
    IF IsNaN(x) THEN NaN
    ELSE IF x = PInf THEN PInf
    ELSE IF x = NInf THEN Dnum(0)
    ELSE IF x[1] >= 0 THEN DAdd(Dnum(1), x)
    ELSE DDiv(Dnum(1), DSub(Dnum(1), x))

-----------------------------------------------------------------------------
(* Tridiag, Lower, Upper.  A matrix is a record [sub, diag, super] of       *)
(* sequences; index k of a std::vector is index k + 1 of its sequence.      *)

Tridiag(subdiag, diag, superdiag) ==
    [sub |-> subdiag, diag |-> diag, super |-> superdiag]

\* Tridiag::operator*(x): first row, middle rows, last row.
TriMul(A, x) ==
    LET n == Len(x)
    IN  [i \in 1..n |->
            IF i = 1
            THEN DAdd(DMul(A.diag[1], x[1]), DMul(A.super[1], x[2]))
            ELSE IF i < n
            THEN DAdd(DAdd(DMul(A.sub[i - 1], x[i - 1]), DMul(A.diag[i], x[i])),
                      DMul(A.super[i], x[i + 1]))
            ELSE DAdd(DMul(A.sub[i - 1], x[i - 1]), DMul(A.diag[i], x[i]))]

\* Eliminate updating the pivot with the subdiagonal entry instead of the
\* superdiagonal one.
RECURSIVE EliminateWithSub(_, _, _, _)
EliminateWithSub(A, i, v, l) ==
    IF i > Len(A.sub) THEN [v |-> v, l |-> l]
    ELSE LET li == DDiv(A.sub[i], v[i])
         IN  EliminateWithSub(A, i + 1,
                       Append(v, DSub(A.diag[i + 1], DMul(li, A.sub[i]))),
                       Append(l, li))

\* The elimination loop of Tridiag::solve from row i on, v and l so far:
\* l[i] = sub[i] / v[i], v[i + 1] = diag[i + 1] - l[i] * c[i].
RECURSIVE Eliminate(_, _, _, _)
Eliminate(A, i, v, l) ==
    IF i > Len(A.sub) THEN [v |-> v, l |-> l]
    ELSE LET li == DDiv(A.sub[i], v[i])
         IN  Eliminate(A, i + 1,
                       Append(v, DSub(A.diag[i + 1], DMul(li, A.super[i]))),
                       Append(l, li))

\* Lower::solve(b) from row i on, x so far: forward substitution.
RECURSIVE LowerSolve(_, _, _, _, _)
LowerSolve(subdiag, diag, b, i, x) ==
    IF i > Len(b) THEN x
    ELSE LowerSolve(subdiag, diag, b, i + 1,
                    Append(x, IF i = 1 THEN DDiv(b[1], diag[1])
                              ELSE DDiv(DSub(b[i], DMul(subdiag[i - 1], x[i - 1])),
                                        diag[i])))

\* Upper::solve(b) from row i down, the rows after i in xs: back substitution.
RECURSIVE UpperSolve(_, _, _, _, _)
UpperSolve(diag, superdiag, b, i, xs) ==
    IF i < 1 THEN xs
    ELSE UpperSolve(diag, superdiag, b, i - 1,
                    <<IF i = Len(b) THEN DDiv(b[i], diag[i])
                      ELSE DDiv(DSub(b[i], DMul(superdiag[i], xs[1])), diag[i])>>
                    \o xs)

\* Tridiag::solve(b): it has no throw statement, so it always returns.
TriSolve(A, b) ==
    LET lu == Eliminate(A, 1, <<A.diag[1]>>, <<>>)
        ones == [i \in 1..Len(A.diag) |-> Dnum(1)]
        y == LowerSolve(lu.l, ones, b, 1, <<>>)
    IN  Val(UpperSolve(lu.v, A.super, y, Len(y), <<>>))

\* The pivots v[0..n-1] that Tridiag::solve divides by.
Pivots(A) == Eliminate(A, 1, <<A.diag[1]>>, <<>>).v

-----------------------------------------------------------------------------
(* Inputs of the tridiagonal checks *)

MaxDim == 3       \* systems of size 2..MaxDim

SubValues == {-1, 0}
SuperValues == {-1, 1}
DiagValues == {0, 1, 3}
VectorValues == {-1, 2}

DVec(n, S) == {[i \in 1..n |-> Dnum(f[i])] : f \in [1..n -> S]}

Systems ==
    UNION { { Tridiag(a, b, c) :
                a \in DVec(n - 1, SubValues), b \in DVec(n, DiagValues),
                c \in DVec(n - 1, SuperValues) } : n \in 2..MaxDim }

\* A round trip takes every vector x over VectorValues; a plain solve takes
\* the right-hand side b = (1, ..., 1).
TridiagCalls ==
    UNION { [fn : {"roundtrip"}, A : {A}, x : DVec(Len(A.diag), VectorValues)]
              \cup [fn : {"solve"}, A : {A}, x : DVec(Len(A.diag), {1})] :
              A \in Systems }

\* The sum of the absolute off-diagonal entries of row i.
OffDiagonal(A, i) ==
    DAdd(IF i > 1 THEN DAbs(A.sub[i - 1]) ELSE Dnum(0),
         IF i < Len(A.diag) THEN DAbs(A.super[i]) ELSE Dnum(0))

WeaklyDominant(A) ==
    \A i \in 1..Len(A.diag) : DGe(DAbs(A.diag[i]), OffDiagonal(A, i))

StrictlyDominant(A) ==
    \A i \in 1..Len(A.diag) : DGt(DAbs(A.diag[i]), OffDiagonal(A, i))

-----------------------------------------------------------------------------
(* Inputs of the rate-curve checks *)

MaxTime == 3      \* control points lie at the integer times 0..MaxTime
MaxPoints == 3    \* a curve has 2..MaxPoints control points

RateValues == {-1, 0, 2}

StrictlyIncreasing(ts) == \A i \in 1..(Len(ts) - 1) : ts[i] < ts[i + 1]

Curves ==
    UNION { { [i \in 1..n |-> <<Dnum(ts[i]), Dnum(rs[i])>>] :
                ts \in {x \in [1..n -> 0..MaxTime] : StrictlyIncreasing(x)},
                rs \in [1..n -> RateValues] } : n \in 2..MaxPoints }

\* Query times: the half-integers from -1/2 to MaxTime + 1/2.
QueryTimes == {Dbl(k, 2) : k \in (-1)..(2 * MaxTime + 1)}

RateCalls ==
    [fn : {"rate"}, c : Curves, ts : {<<t>> : t \in QueryTimes}]

IntegralCalls ==
    [fn : {"integral"}, c : Curves,
     ts : {<<a, b, d>> : a \in QueryTimes, b \in QueryTimes, d \in QueryTimes}]

Integral1Calls ==
    [fn : {"integral1"}, c : Curves, ts : {<<t>> : t \in QueryTimes},
     abs : AbsOverloads]

tMin(c) == c[1][1]
tMax(c) == c[Len(c)][1]
InDomain(c, t) == Within(t, tMin(c), tMax(c))

-----------------------------------------------------------------------------
(* Option: vector helpers, coefficients and the two boundary terms *)

\* operator*(double k, vector v), operator-(double k, vector v) and
\* operator+(double k, vector v).
ScalarTimes(k, v) == [ii \in 1..Len(v) |-> DMul(v[ii], k)]
ScalarMinus(k, v) == [ii \in 1..Len(v) |-> DSub(k, v[ii])]
ScalarPlus(k, v) == [ii \in 1..Len(v) |-> DAdd(k, v[ii])]

\* operator-(vector v1, vector v2).
VectorMinus(v1, v2) == [ii \in 1..Len(v1) |-> DSub(v1[ii], v2[ii])]

\* operator+(vector v1, pair p2): p2.first onto the first entry, p2.second
\* onto the last.
PlusPair(v1, p2) ==
    [ii \in 1..Len(v1) |->
        DAdd(DAdd(v1[ii], IF ii = 1 THEN p2[1] ELSE Dnum(0)),
             IF ii = Len(v1) THEN p2[2] ELSE Dnum(0))]

\* som of norm(v1): the sum of squares whose square root norm returns.
RECURSIVE som(_, _)
som(v1, n) ==
    IF n = 0 THEN Dnum(0) ELSE DAdd(som(v1, n - 1), DMul(v1[n], v1[n]))

\* The sum of the absolute entries of v1, which is at least its norm.
RECURSIVE AbsSum(_, _)
AbsSum(v1, n) ==
    IF n = 0 THEN Dnum(0) ELSE DAdd(AbsSum(v1, n - 1), DAbs(v1[n]))

\* The value of the local error.  A square root has no rational value in
\* general: a norm is held as the vector it is the norm of, a literal as
\* itself.
Literal(x) == [root |-> FALSE, v |-> x]
norm(v1) == [root |-> TRUE, v |-> v1]

\* sqrt(som) > tol for the vector d.  The sign of tol, one entry above tol
\* (the norm is at least each absolute entry) and the absolute sum at most
\* tol (the norm is at most that sum) settle the test without the squares;
\* the squares settle what is left.
NormGt(d, tol) ==
    IF IsNaN(tol) \/ (\E i \in 1..Len(d) : IsNaN(d[i])) THEN FALSE
    ELSE IF DLt(tol, Dnum(0)) THEN TRUE
    ELSE IF \E i \in 1..Len(d) : DGt(DAbs(d[i]), tol) THEN TRUE
    ELSE IF DLe(AbsSum(d, Len(d)), tol) THEN FALSE
    ELSE DGt(som(d, Len(d)), DMul(tol, tol))

\* error > tol_, the test of the SOR loop.
ErrorGt(e, tol) == IF e.root THEN NormGt(e.v, tol) ELSE DGt(e.v, tol)

\* curve(t) and curve.integral(t) on the option's own curve.
curve(t) == Rate(interest_rate_, t)
integral(t) == Integral1(interest_rate_, t).val

\* The time dT * i of a size_t level i.
Level(i) == DMul(dT, Dnum(i))

\* Whether a rate lookup of time step i throws: the step reads the curve at
\* the levels i - 1 and i.
StepThrows(i) == ~curve(Level(i - 1)).ok \/ ~curve(Level(i)).ok

Vol2(j) == DMul(DMul(DMul(volatility_, volatility_), Dnum(j)), Dnum(j))

\* compute_aj with entry k taken at node k instead of node k + 1.
compute_ajAtIndex(i) ==
    [k \in 1..(spot_mesh_ - 2) |->
        DMul(DDiv(dT, Dnum(4)),
             DSub(Vol2(k), DMul(curve(Level(i)).val, Dnum(k))))]

compute_aj(i) ==
    [k \in 1..(spot_mesh_ - 2) |->
        DMul(DDiv(dT, Dnum(4)),
             DSub(Vol2(k + 1), DMul(curve(Level(i)).val, Dnum(k + 1))))]

compute_bj(i) ==
    [k \in 1..(spot_mesh_ - 1) |->
        DMul(DNeg(DDiv(dT, Dnum(2))),
             DAdd(Vol2(k), curve(Level(i)).val))]

compute_cj(i) ==
    [k \in 1..(spot_mesh_ - 2) |->
        DMul(DDiv(dT, Dnum(4)),
             DAdd(Vol2(k), DMul(curve(Level(i)).val, Dnum(k))))]

compute_C(a, b, c) ==
    Tridiag(ScalarTimes(Dnum(-1), a), ScalarMinus(Dnum(1), b),
            ScalarTimes(Dnum(-1), c))

compute_D(a, b, c) == Tridiag(a, ScalarPlus(Dnum(1), b), c)

\* exp(-curve.integral(dT * i)).
Discount(i) == Exp(DNeg(integral(Level(i))))

compute_K(i) ==
    LET m == spot_mesh_ - 1
        a1_prec == DMul(DDiv(dT, Dnum(4)),
                        DSub(Vol2(1), DMul(curve(Level(i - 1)).val, Dnum(1))))
        a1_curr == DMul(DDiv(dT, Dnum(4)),
                        DSub(Vol2(1), DMul(curve(Level(i)).val, Dnum(1))))
        K1 == DAdd(DMul(DMul(a1_prec, F0), Discount(i - 1)),
                   DMul(DMul(a1_curr, F0), Discount(i)))
        cm_prec == DMul(DDiv(dT, Dnum(4)),
                        DSub(Vol2(m), DMul(curve(Level(i - 1)).val, Dnum(m))))
        cm_curr == DMul(DDiv(dT, Dnum(4)),
                        DSub(Vol2(m), DMul(curve(Level(i)).val, Dnum(m))))
        K2 == DAdd(DMul(cm_prec, DSub(FM, DMul(K_, Discount(i - 1)))),
                   DMul(cm_curr, DSub(FM, DMul(K_, Discount(i)))))
    IN  <<K1, K2>>

-----------------------------------------------------------------------------
(* Option: construction, terminal payoff, time steps, price *)

\* The int argument exercise_type as the bool field exercise_type_ holds it.
BoolOf(n) == IF n # 0 THEN 1 ELSE 0

\* The first failing check of the constructor, or "none".
Validate ==
    IF contract_type_ # 1 /\ contract_type_ # -1 THEN "InvalidContractType"
    ELSE IF exercise_type_ # 1 /\ exercise_type_ # 0 THEN "InvalidExerciseType"
    ELSE IF DLt(T_, T0_) \/ DLt(T_, Dnum(0)) THEN "InvalidMaturity"
    ELSE IF DLe(K_, Dnum(0)) THEN "InvalidStrike"
    ELSE IF time_mesh_ <= 0 THEN "InvalidTimeMesh"
    ELSE IF spot_mesh_ <= 0 THEN "InvalidSpotMesh"
    ELSE IF DLe(S0_, Dnum(0)) THEN "InvalidSpot"
    ELSE IF DLe(volatility_, Dnum(0)) THEN "InvalidVolatility"
    ELSE "none"

\* create_grid(): spot_mesh_ + 1 rows of time_mesh_ zeros.
create_grid ==
    [r \in 0..spot_mesh_ |-> [n \in 0..(time_mesh_ - 1) |-> Dnum(0)]]

\* std::max(contract_type_ * (S - K_), 0.0).
Payoff(S) == DMax(DMul(Dnum(contract_type_), DSub(S, K_)), Dnum(0))

\* Sk with the accumulation started at the spot S0_.
RECURSIVE SkFromSpot(_)
SkFromSpot(ii) == IF ii = 0 THEN S0_ ELSE DAdd(SkFromSpot(ii - 1), dS)

\* Sk at row ii: 0 and then ii additions of dS.
RECURSIVE Sk(_)
Sk(ii) == IF ii = 0 THEN Dnum(0) ELSE DAdd(Sk(ii - 1), dS)

\* The grid with column n rewritten from the solved vector alone: its first
\* entry in row 0 as well, its last entry in row spot_mesh_ as well.
WriteColumnSolved(g, n, bottom, inner, top) ==
    [r \in 0..spot_mesh_ |->
        [g[r] EXCEPT ![n] = IF r = 0 THEN inner[1]
                            ELSE IF r = spot_mesh_ THEN inner[spot_mesh_ - 1]
                            ELSE inner[r]]]

\* The grid with column n rewritten: bottom in row 0, inner[r] in the rows
\* 1..spot_mesh_ - 1, top in row spot_mesh_.
WriteColumn(g, n, bottom, inner, top) ==
    [r \in 0..spot_mesh_ |->
        [g[r] EXCEPT ![n] = IF r = 0 THEN bottom
                            ELSE IF r = spot_mesh_ THEN top
                            ELSE inner[r]]]

\* F after the loop body of european_price() at level j has solved
\* C(j - 1) F' = D(j) Fv + K(j).
EuropeanSolve(Fv, j) ==
    LET C == compute_C(compute_aj(j - 1), compute_bj(j - 1),
                       compute_cj(j - 1))
        D == compute_D(compute_aj(j), compute_bj(j), compute_cj(j))
    IN  TriSolve(C, PlusPair(TriMul(D, Fv), compute_K(j))).val

\* The column a time step writes, read as the step's own level.
StepColumnSame(j) == j

\* The column the time step at level j writes.
StepColumn(j) == j - 1

\* x * (contract_type_ == 1).
TimesIsCall(x) == DMul(x, Dnum(IF contract_type_ = 1 THEN 1 ELSE 0))

\* The relaxed value taken without the comparison with the exercise value.
ProjectNone(payoff, candidate) == candidate

\* std::max(payoff, candidate) of the SOR sweep.
Project(payoff, candidate) == DMax(payoff, candidate)

\* F_tmp of a sweep that reads every neighbour from the previous sweep's F.
F_tmpFromPrevious(a, b, c, k) ==
    [i \in 1..k |->
        LET n == spot_mesh_ - 1
            one_b == DSub(Dnum(1), b[i])
            below == IF i = 1 THEN Dnum(0) ELSE DMul(a[i - 1], F[i - 1])
            above == IF i = n THEN Dnum(0) ELSE DMul(c[i], F[i + 1])
            residual == DAdd(DSub(DAdd(RHS[i], below), DMul(one_b, F[i])),
                             above)
        IN  Project(Payoff(Sk(i)),
                    DAdd(F[i], DMul(DDiv(w_, one_b), residual)))]

\* F_tmp after one sweep has set its entries 1..k.
RECURSIVE F_tmp(_, _, _, _)
F_tmp(a, b, c, k) ==
    IF k = 0 THEN <<>>
    ELSE LET prev == F_tmp(a, b, c, k - 1)
             n == spot_mesh_ - 1
             one_b == DSub(Dnum(1), b[k])
             below == IF k = 1 THEN Dnum(0) ELSE DMul(a[k - 1], prev[k - 1])
             above == IF k = n THEN Dnum(0) ELSE DMul(c[k], F[k + 1])
             residual == DAdd(DSub(DAdd(RHS[k], below), DMul(one_b, F[k])),
                              above)
         IN  Append(prev,
                 Project(Payoff(Sk(k)),
                         DAdd(F[k], DMul(DDiv(w_, one_b), residual))))

\* The row of price() with the quotient truncated instead of rounded.
PriceRowTruncated == DTrunc(DDiv(S0_, dS))

\* std::round(S0_ / dS), the row price() reads.
PriceRow == DRound(DDiv(S0_, dS))

-----------------------------------------------------------------------------
(* Values of the Option variables while a pure function is under check *)

OptionIdle ==
    /\ exercise_type = 0 /\ contract_type_ = 0 /\ exercise_type_ = 0
    /\ T_ = Dnum(0) /\ K_ = Dnum(0) /\ T0_ = Dnum(0) /\ S0_ = Dnum(0)
    /\ volatility_ = Dnum(0) /\ time_mesh_ = 0 /\ spot_mesh_ = 0
    /\ interest_rate_ = <<>> /\ tol_ = Dnum(0) /\ w_ = Dnum(0)
    /\ dT = Dnum(0) /\ dS = Dnum(0) /\ F0 = Dnum(0) /\ FM = Dnum(0)
    /\ grid = <<>> /\ F = <<>> /\ jj = 0 /\ RHS = <<>>
    /\ error = Literal(Dnum(0)) /\ sweeps = 0 /\ written = <<>>
    /\ thrown = "none"

-----------------------------------------------------------------------------
(* Rate-curve specification: one call of rate(t), of integral(t0), or of the *)
(* three integrals integral(t0, t1), integral(t1, t2), integral(t0, t2), on *)
(* a curve and times drawn from bounded sets.                               *)

RateInit ==
    /\ OptionIdle
    /\ pc = "call"
    /\ call \in RateCalls \cup Integral1Calls \cup
                {k \in IntegralCalls :
                    DLt(k.ts[1], k.ts[2]) /\ DLt(k.ts[2], k.ts[3])}
    /\ ret = <<>>

CallRate ==
    /\ pc = "call" /\ call.fn = "rate"
    /\ ret' = <<Rate(call.c, call.ts[1])>>
    /\ pc' = "returned"
    /\ UNCHANGED <<optFields, optDerived, optWork, thrown, call>>

CallIntegral ==
    /\ pc = "call" /\ call.fn = "integral"
    /\ ret' = <<Integral(call.c, call.ts[1], call.ts[2]),
                Integral(call.c, call.ts[2], call.ts[3]),
                Integral(call.c, call.ts[1], call.ts[3])>>
    /\ pc' = "returned"
    /\ UNCHANGED <<optFields, optDerived, optWork, thrown, call>>

CallIntegral1 ==
    /\ pc = "call" /\ call.fn = "integral1"
    /\ ret' = <<Integral1(call.c, call.ts[1])>>
    /\ pc' = "returned"
    /\ UNCHANGED <<optFields, optDerived, optWork, thrown, call>>

RateNext == CallRate \/ CallIntegral \/ CallIntegral1

RateSpec == RateInit /\ [][RateNext]_vars


-----------------------------------------------------------------------------
(* Claims on the rate curve, checked under RateSpec *)

\* C3: rate(t) inside [t_min, t_max] is the linear interpolation between the
\* control points of every segment bracketing t, hence exactly a control
\* point's rate at its time; outside the domain it throws InvalidTime and
\* returns no value.
C3_RateInterpolatesOrThrows ==
    (pc = "returned" /\ call.fn = "rate") =>
        LET c == call.c
            t == call.ts[1]
            r == ret[1]
        IN  /\ InDomain(c, t) =>
                /\ r.ok
                /\ \A i \in 1..(Len(c) - 1) :
                       Within(t, c[i][1], c[i + 1][1]) =>
                           DMul(r.val, DSub(c[i + 1][1], c[i][1]))
                             = DAdd(DMul(c[i][2], DSub(c[i + 1][1], t)),
                                    DMul(c[i + 1][2], DSub(t, c[i][1])))
                /\ \A i \in 1..Len(c) : t = c[i][1] => r.val = c[i][2]
            /\ ~InDomain(c, t) => (~r.ok /\ r.exc = "InvalidTime")

\* A call strictly inside the second segment of a three-point curve whose
\* result is the rate of neither end of that segment.
C3_Witness ==
    /\ pc = "returned" /\ call.fn = "rate"
    /\ Len(call.c) = 3
    /\ DLt(call.c[2][1], call.ts[1]) /\ DLt(call.ts[1], call.c[3][1])
    /\ ret[1].ok
    /\ ret[1].val # call.c[2][2] /\ ret[1].val # call.c[3][2]

ClipArea(c, i, lo, hi) ==
    LET left == IF DLt(c[i][1], lo) THEN lo ELSE c[i][1]
        right == IF DLt(hi, c[i + 1][1]) THEN hi ELSE c[i + 1][1]
    IN  IF DGe(left, right) THEN Dnum(0)
        ELSE Half(DMul(DAdd(Interpolate(left, c[i], c[i + 1]),
                            Interpolate(right, c[i], c[i + 1])),
                       DSub(right, left)))

\* The signed area under the curve c between lo and hi.
RECURSIVE SignedAreaTo(_, _, _, _)
SignedAreaTo(c, n, lo, hi) ==
    IF n = 0 THEN Dnum(0)
    ELSE DAdd(SignedAreaTo(c, n - 1, lo, hi), ClipArea(c, n, lo, hi))

SignedArea(c, lo, hi) == SignedAreaTo(c, Len(c) - 1, lo, hi)

\* C11: the integral is the signed area under the piecewise-linear curve:
\* integral(t0, tf) over an interval inside the domain, and integral(t0) over
\* the interval it covers (t0 to the end of the curve), return the sum over
\* the covered segments of (r_left + r_right) / 2 * width, negative where
\* the rate is negative.
C11_IntegralIsSignedArea ==
    /\ (/\ pc = "returned" /\ call.fn = "integral"
        /\ InDomain(call.c, call.ts[1]) /\ InDomain(call.c, call.ts[3])) =>
          /\ ret[3].ok
          /\ ret[3].val = SignedArea(call.c, call.ts[1], call.ts[3])
    /\ (pc = "returned" /\ call.fn = "integral1"
        /\ InDomain(call.c, call.ts[1])) =>
          /\ ret[1].ok
          /\ ret[1].val = SignedArea(call.c, call.ts[1], tMax(call.c))

\* C12: integral(t0) with t0 outside [t_min, t_max], and integral(t0, tf)
\* with t0 < t_min or tf > t_max, end in an error and return no value.
C12_IntegralOutOfDomainThrows ==
    /\ (/\ pc = "returned" /\ call.fn = "integral"
        /\ (DLt(call.ts[1], tMin(call.c)) \/ DGt(call.ts[3], tMax(call.c))))
          => ~ret[3].ok
    /\ (pc = "returned" /\ call.fn = "integral1"
        /\ ~InDomain(call.c, call.ts[1])) => ~ret[1].ok

\* C13: on a curve that starts at time 0, integral(t0) for t0 in the domain
\* is the area under the curve over [0, t0]; integral(0) = 0.
C13_IntegralFromZero ==
    (/\ pc = "returned" /\ call.fn = "integral1"
     /\ tMin(call.c) = Dnum(0) /\ InDomain(call.c, call.ts[1])) =>
        /\ ret[1].ok
        /\ ret[1].val = SignedArea(call.c, Dnum(0), call.ts[1])
        /\ call.ts[1] = Dnum(0) => ret[1].val = Dnum(0)

-----------------------------------------------------------------------------
(* Tridiagonal specification: one round trip solve(A * x), or one solve(b), *)
(* on a system and a vector drawn from bounded sets.                        *)

TridiagInit ==
    /\ OptionIdle
    /\ pc = "call"
    /\ call \in TridiagCalls
    /\ ret = <<>>

CallRoundTrip ==
    /\ pc = "call" /\ call.fn = "roundtrip"
    /\ ret' = <<TriSolve(call.A, TriMul(call.A, call.x))>>
    /\ pc' = "returned"
    /\ UNCHANGED <<optFields, optDerived, optWork, thrown, call>>

CallSolve ==
    /\ pc = "call" /\ call.fn = "solve"
    /\ ret' = <<TriSolve(call.A, call.x)>>
    /\ pc' = "returned"
    /\ UNCHANGED <<optFields, optDerived, optWork, thrown, call>>

TridiagNext == CallRoundTrip \/ CallSolve

TridiagSpec == TridiagInit /\ [][TridiagNext]_vars

-----------------------------------------------------------------------------
(* Claims on the tridiagonal system, checked under TridiagSpec *)

\* C4 as stated: for every diagonally dominant system (each |diag[i]| at
\* least the sum of the absolute off-diagonal entries of its row) and every
\* x, solve(A * x) = x.
C4_RoundTripWeaklyDominant ==
    (pc = "returned" /\ call.fn = "roundtrip" /\ WeaklyDominant(call.A)) =>
        (ret[1].ok /\ ret[1].val = call.x)

\* C4 as amended: for every strictly diagonally dominant system (each
\* |diag[i]| greater than the sum of the absolute off-diagonal entries of its
\* row) of size n >= 2 and every x of length n, solve(A * x) = x.
C4_RoundTripStrictlyDominant ==
    (pc = "returned" /\ call.fn = "roundtrip" /\ StrictlyDominant(call.A)) =>
        (ret[1].ok /\ ret[1].val = call.x)

\* A round trip of a strictly dominant system of size 3 with a non-zero
\* subdiagonal, so that elimination changes the pivots.
C4_Witness ==
    /\ pc = "returned" /\ call.fn = "roundtrip"
    /\ StrictlyDominant(call.A) /\ Len(call.A.diag) = 3
    /\ \A i \in 1..2 : call.A.sub[i] # Dnum(0)
    /\ Pivots(call.A) # call.A.diag
    /\ ret[1].ok /\ ret[1].val = call.x

\* Some pivot that Tridiag::solve divides by is zero.
HasZeroPivot(A) == \E i \in 1..Len(A.diag) : Pivots(A)[i] = Dnum(0)

\* C9: when diag[0] or a pivot computed during elimination is zero, solve(b)
\* ends in an error and returns no vector.
C9_ZeroPivotIsAnError ==
    (pc = "returned" /\ call.fn = "solve" /\ HasZeroPivot(call.A)) => ~ret[1].ok

-----------------------------------------------------------------------------
(* Option specification: one construction of an Option from arguments drawn *)
(* from bounded sets, followed by one call of price().                      *)

MaxTimeMesh == 3      \* time_mesh in 0..MaxTimeMesh
MaxSpotMesh == 4      \* spot_mesh in 0..MaxSpotMesh
MaxSweeps == 3        \* the model follows a SOR loop for MaxSweeps sweeps

\* <<T0, T>> of an option with an empty life (dT = 0), and of one whose
\* life starts at 0, before 0 and after 0.
StillMaturities == {<<0, 0>>, <<1, 1>>}
MovingMaturities == {<<0, 1>>, <<-1, 1>>, <<1, 2>>}

Strikes == {1, 3}

\* A zero curve on [0, 1], a flat curve on [0, 2], and a zero curve that
\* starts after time 0.
OptionCurves ==
    { <<<<Dnum(0), Dnum(0)>>, <<Dnum(1), Dnum(0)>>>>,
      <<<<Dnum(0), Dnum(1)>>, <<Dnum(2), Dnum(1)>>>>,
      <<<<Dnum(1), Dnum(0)>>, <<Dnum(2), Dnum(0)>>>> }

\* <<tol, w>>: the defaults of Option.h, a coarse tolerance without
\* over-relaxation, a negative tolerance, and the initial error itself.
DefaultRelaxation == <<Dbl(1, 100), Dbl(6, 5)>>
Relaxations ==
    { DefaultRelaxation, <<Dnum(1), Dnum(1)>>, <<Dnum(-1), Dbl(6, 5)>>,
      <<Dnum(1000000), Dbl(6, 5)>> }

\* <<time_mesh, spot_mesh>> of the options with dT > 0, the European ones
\* and the American ones, and <<tol, w>> of the latter.  Exact arithmetic on
\* 32-bit integers carries these runs and no larger ones.
MovingMeshes == {<<1, 3>>, <<2, 3>>, <<3, 3>>, <<2, 4>>, <<3, 4>>}
SweptMeshes == {<<1, 3>>, <<2, 3>>, <<3, 3>>}
SweptRelaxations ==
    { <<Dnum(1), Dnum(1)>>, <<Dnum(-1), Dnum(1)>>,
      <<Dnum(1000000), Dbl(6, 5)>> }

Args(cts, ets, mats, meshes, tws) ==
    { [ct |-> ct, et |-> et, mat |-> mat, K |-> K, S0 |-> 1, vol |-> 1,
       N |-> mesh[1], M |-> mesh[2], c |-> c, tw |-> tw] :
          ct \in cts, et \in ets, mat \in mats, K \in Strikes, mesh \in meshes,
          c \in OptionCurves, tw \in tws }

AllMeshes == (1..MaxTimeMesh) \X (1..MaxSpotMesh)

AcceptedArgs ==
    Args({1, -1}, {0}, StillMaturities, AllMeshes, Relaxations)
    \cup Args({1, -1}, {1}, StillMaturities, AllMeshes, {DefaultRelaxation})
    \cup Args({1, -1}, {0}, MovingMaturities, SweptMeshes, SweptRelaxations)
    \cup Args({1, -1}, {1}, MovingMaturities, MovingMeshes, {DefaultRelaxation})

\* One argument at a time moved off its accepted range, and all at once.
OtherArgs ==
    LET base == [ct |-> 1, et |-> 1, mat |-> <<0, 1>>, K |-> 1, S0 |-> 1,
                 vol |-> 1, N |-> 2, M |-> 3,
                 c |-> <<<<Dnum(0), Dnum(0)>>, <<Dnum(1), Dnum(0)>>>>,
                 tw |-> DefaultRelaxation]
    IN  { [base EXCEPT !.ct = 0], [base EXCEPT !.ct = 2],
          [base EXCEPT !.et = 2], [base EXCEPT !.et = -1],
          [base EXCEPT !.mat = <<1, 0>>], [base EXCEPT !.mat = <<-2, -1>>],
          [base EXCEPT !.K = 0], [base EXCEPT !.K = -1],
          [base EXCEPT !.N = 0], [base EXCEPT !.M = 0],
          [base EXCEPT !.S0 = 0], [base EXCEPT !.S0 = -1],
          [base EXCEPT !.vol = 0], [base EXCEPT !.vol = -1],
          [base EXCEPT !.ct = 0, !.mat = <<1, 0>>, !.K = 0, !.N = 0,
                       !.M = 0, !.S0 = 0, !.vol = 0] }

OptionArgs == AcceptedArgs \cup OtherArgs

\* The state the member initialisers leave: the fields hold the arguments.
Init ==
    /\ \E in \in OptionArgs :
        /\ exercise_type = in.et
        /\ contract_type_ = in.ct
        /\ exercise_type_ = BoolOf(in.et)
        /\ T_ = Dnum(in.mat[2]) /\ T0_ = Dnum(in.mat[1])
        /\ K_ = Dnum(in.K) /\ S0_ = Dnum(in.S0)
        /\ volatility_ = Dnum(in.vol)
        /\ time_mesh_ = in.N /\ spot_mesh_ = in.M
        /\ interest_rate_ = in.c
        /\ tol_ = in.tw[1] /\ w_ = in.tw[2]
    /\ dT = Dnum(0) /\ dS = Dnum(0) /\ F0 = Dnum(0) /\ FM = Dnum(0)
    /\ grid = <<>> /\ F = <<>> /\ jj = 0 /\ RHS = <<>>
    /\ error = Literal(Dnum(0)) /\ sweeps = 0 /\ written = <<>>
    /\ thrown = "none"
    /\ pc = "Initialized"
    /\ call \in [fn : {"Option"}, abs : AbsOverloads]
    /\ ret = <<>>

\* The constructor up to create_grid(): the checks, the mesh steps, the
\* boundary values and the allocation of the grid.
Construct ==
    /\ pc = "Initialized"
    /\ IF Validate # "none"
       THEN /\ thrown' = Validate
            /\ pc' = "Failed"
            /\ UNCHANGED <<optDerived, grid>>
       ELSE /\ dT' = DDiv(DSub(T_, T0_), Dnum(time_mesh_))
            /\ dS' = DDiv(DMul(Dnum(5), S0_), Dnum(spot_mesh_))
            /\ F0' = IF contract_type_ = 1 THEN Dnum(0) ELSE K_
            /\ FM' = IF contract_type_ = 1 THEN DMul(Dnum(5), S0_) ELSE Dnum(0)
            /\ grid' = create_grid
            /\ pc' = "GridAllocated"
            /\ UNCHANGED thrown
    /\ UNCHANGED <<optFields, F, jj, RHS, error, sweeps, written, call, ret>>

\* F after a resize that keeps the entries of an earlier solve.
TerminalFResized ==
    IF Len(F) = spot_mesh_ - 1 THEN F
    ELSE [k \in 1..(spot_mesh_ - 1) |-> Payoff(Sk(k))]

\* F after solve() has resized it and copied the interior rows of the
\* terminal column into it.
TerminalF == [k \in 1..(spot_mesh_ - 1) |-> Payoff(Sk(k))]

\* solve() up to the choice of the pricing loop: the terminal column and F.
SolveTerminal ==
    /\ pc = "GridAllocated"
    /\ grid' = [r \in 0..spot_mesh_ |->
                  [grid[r] EXCEPT ![time_mesh_ - 1] = Payoff(Sk(r))]]
    /\ F' = TerminalF
    /\ jj' = time_mesh_ - 1
    /\ written' = Append(written, time_mesh_ - 1)
    /\ pc' = "TerminalPayoffSet"
    /\ UNCHANGED <<optFields, optDerived, RHS, error, sweeps, thrown, call, ret>>

BetweenSteps == pc \in {"TerminalPayoffSet", "Stepping"}

\* One pass of the loop body of european_price().
EuropeanStep ==
    /\ BetweenSteps /\ exercise_type_ = 1 /\ jj > 0 /\ spot_mesh_ >= 3
    /\ IF StepThrows(jj)
       THEN /\ thrown' = "InvalidTime"
            /\ pc' = "Failed"
            /\ UNCHANGED <<grid, F, jj, written>>
       ELSE LET sol == EuropeanSolve(F, jj)
            IN  /\ F' = sol
                /\ grid' = WriteColumn(grid, StepColumn(jj),
                               DMul(F0, Discount(jj - 1)), sol,
                               TimesIsCall(DSub(FM, DMul(K_, Discount(jj - 1)))))
                /\ written' = Append(written, StepColumn(jj))
                /\ jj' = jj - 1
                /\ pc' = "Stepping"
                /\ UNCHANGED thrown
    /\ UNCHANGED <<optFields, optDerived, RHS, error, sweeps, call, ret>>

\* The loop body of american_price() up to the SOR loop.
AmericanBegin ==
    /\ BetweenSteps /\ exercise_type_ = 0 /\ jj > 0 /\ spot_mesh_ >= 3
    /\ IF StepThrows(jj)
       THEN /\ thrown' = "InvalidTime"
            /\ pc' = "Failed"
            /\ UNCHANGED <<RHS, error, sweeps>>
       ELSE LET D == compute_D(compute_aj(jj), compute_bj(jj), compute_cj(jj))
            IN  /\ RHS' = PlusPair(TriMul(D, F), compute_K(jj))
                /\ error' = Literal(Dnum(1000000))
                /\ sweeps' = 0
                /\ pc' = "Sor"
                /\ UNCHANGED thrown
    /\ UNCHANGED <<optFields, optDerived, grid, F, jj, written, call, ret>>

\* One pass of the SOR loop.
Sweep ==
    /\ pc = "Sor" /\ ErrorGt(error, tol_) /\ sweeps < MaxSweeps
    /\ LET new == F_tmp(compute_aj(jj), compute_bj(jj), compute_cj(jj),
                        spot_mesh_ - 1)
       IN  /\ error' = norm(VectorMinus(F, new))
           /\ F' = new
    /\ sweeps' = sweeps + 1
    /\ UNCHANGED <<optFields, optDerived, grid, jj, RHS, written, pc, thrown,
                   call, ret>>

\* The loop body of american_price() after the SOR loop.
AmericanWrite ==
    /\ pc = "Sor" /\ ~ErrorGt(error, tol_)
    /\ grid' = WriteColumn(grid, StepColumn(jj), F0, F,
                           TimesIsCall(DSub(FM, K_)))
    /\ written' = Append(written, StepColumn(jj))
    /\ jj' = jj - 1
    /\ pc' = "Stepping"
    /\ UNCHANGED <<optFields, optDerived, F, RHS, error, sweeps, thrown, call,
                   ret>>

\* A loop body entered with fewer than three spot steps.  With one spot step
\* the vector of spot_mesh_ - 2 entries has 2^32 - 1 of them and its
\* allocation may throw; otherwise a rate lookup outside the curve throws,
\* and without such a throw D * F reads past the end of F.
SmallMeshStep ==
    /\ BetweenSteps /\ jj > 0 /\ spot_mesh_ < 3
    /\ \E outcome \in (IF spot_mesh_ = 1 THEN {"bad_alloc"} ELSE {})
                      \cup (IF StepThrows(jj) THEN {"InvalidTime"}
                            ELSE {"Undefined"}) :
        IF outcome = "Undefined"
        THEN pc' = "Undefined" /\ UNCHANGED thrown
        ELSE pc' = "Failed" /\ thrown' = outcome
    /\ UNCHANGED <<optFields, optDerived, optWork, call, ret>>

\* The pricing loop ends and the constructor returns.
Finish ==
    /\ BetweenSteps /\ jj = 0
    /\ pc' = "Priced"
    /\ UNCHANGED <<optFields, optDerived, optWork, thrown, call, ret>>

\* price() on the constructed option.
Price ==
    /\ pc = "Priced" /\ ret = <<>>
    /\ ret' = <<[row |-> PriceRow, val |-> grid[PriceRow][0]]>>
    /\ UNCHANGED <<pc, optFields, optDerived, optWork, thrown, call>>

Next ==
    \/ Construct
    \/ SolveTerminal
    \/ EuropeanStep
    \/ AmericanBegin
    \/ Sweep
    \/ AmericanWrite
    \/ SmallMeshStep
    \/ Finish
    \/ Price

Spec == Init /\ [][Next]_vars

-----------------------------------------------------------------------------
(* Claims on the pricing engine, checked under Spec *)

\* The spot of row j and its exercise value max(sign * (S_j - K), 0), taken
\* by multiplication and by cases.
Spot(j) == DMul(Dnum(j), dS)
ExerciseValue(j) ==
    LET x == DMul(Dnum(contract_type_), DSub(Spot(j), K_))
    IN  IF DGt(x, Dnum(0)) THEN x ELSE Dnum(0)

\* The positions from the terminal payoff on, the failed ones left out.
Solving == pc \in {"TerminalPayoffSet", "Stepping", "Sor", "Priced"}

Columns == {written[i] : i \in 1..Len(written)}

\* What C2 takes the constructor to require of its arguments.
Constraints ==
    /\ contract_type_ \in {1, -1}
    /\ DGe(T_, T0_) /\ DGe(T0_, Dnum(0))
    /\ DGt(K_, Dnum(0)) /\ DGt(S0_, Dnum(0)) /\ DGt(volatility_, Dnum(0))
    /\ time_mesh_ > 0 /\ spot_mesh_ > 0

ValidationErrors ==
    {"InvalidContractType", "InvalidMaturity", "InvalidStrike",
     "InvalidTimeMesh", "InvalidSpotMesh", "InvalidSpot", "InvalidVolatility"}

\* C2: construction succeeds only when the contract type is 1 or -1,
\* T >= T0 >= 0, and K, S0, volatility, time_mesh and spot_mesh are positive;
\* when one of these fails, the constructor ends in the matching validation
\* error before the grid is allocated or written.
C2_ConstructorValidates ==
    /\ pc = "Priced" => Constraints
    /\ (pc # "Initialized" /\ ~Constraints) =>
          /\ pc = "Failed" /\ thrown \in ValidationErrors
          /\ grid = <<>> /\ written = <<>>

\* C6: once solve() has set the terminal condition, grid[j][N-1] is
\* max(sign * (j * dS - K), 0) for every row j in 0..M, and right after it
\* the working vector holds the interior rows: its entry for row j (F[j-1] in
\* the code, F[j] here) is grid[j][N-1] for j in 1..M-1.
C6_TerminalPayoff ==
    /\ Solving =>
          \A j \in 0..spot_mesh_ : grid[j][time_mesh_ - 1] = ExerciseValue(j)
    /\ pc = "TerminalPayoffSet" =>
          /\ Len(F) = spot_mesh_ - 1
          /\ \A j \in 1..(spot_mesh_ - 1) : F[j] = grid[j][time_mesh_ - 1]

\* A put right after its terminal payoff, with an interior row in the money
\* and an interior row out of it.
C6_Witness ==
    /\ pc = "TerminalPayoffSet" /\ contract_type_ = -1
    /\ \E j \in 1..(spot_mesh_ - 1) : DGt(F[j], Dnum(0))
    /\ \E j \in 1..(spot_mesh_ - 1) : F[j] = Dnum(0) /\ DGt(Spot(j), K_)

\* C7: price() returns grid[i][0] for the row i = round(S0 / dS): i lies in
\* 0..M and no node of the spot axis is nearer to S0 than node i.
C7_PriceAtNearestNode ==
    ret # <<>> =>
        /\ ret[1].row \in 0..spot_mesh_
        /\ ret[1].val = grid[ret[1].row][0]
        /\ \A k \in 0..spot_mesh_ :
              DLe(DAbs(DSub(Spot(ret[1].row), S0_)), DAbs(DSub(Spot(k), S0_)))

\* A price read on a mesh where S0 lies strictly between two nodes and
\* nearer to the upper one, the values of the two nodes being different.
C7_Witness ==
    /\ ret # <<>> /\ ret[1].row >= 1
    /\ DGt(Spot(ret[1].row), S0_)
    /\ ret[1].val # grid[ret[1].row - 1][0]

\* <<N-1, N-2, ..., N-n>>: the last n columns, from the last one down.
Descending(n) == [k \in 1..n |-> time_mesh_ - k]

\* Column n of the grid g.
Column(g, n) == [r \in 0..spot_mesh_ |-> g[r][n]]

\* The columns written so far at each position of the state machine.
ColumnOrder ==
    /\ pc = "Initialized" => (grid = <<>> /\ written = <<>>)
    /\ pc = "GridAllocated" =>
          /\ written = <<>>
          /\ DOMAIN grid = 0..spot_mesh_
          /\ \A r \in 0..spot_mesh_ : DOMAIN grid[r] = 0..(time_mesh_ - 1)
    /\ pc = "TerminalPayoffSet" => written = <<time_mesh_ - 1>>
    /\ pc \in {"TerminalPayoffSet", "Stepping", "Sor"} =>
          /\ jj \in 0..(time_mesh_ - 1)
          /\ written = Descending(time_mesh_ - jj)
    /\ pc = "Priced" => (jj = 0 /\ written = Descending(time_mesh_))

\* A step that writes, writes one column and leaves every other column as it
\* was; a step that does not write leaves the allocated grid as it was.
OneColumnPerStep ==
    IF written' # written
    THEN \E n \in 0..(time_mesh_ - 1) :
            /\ written' = Append(written, n)
            /\ \A m \in (0..(time_mesh_ - 1)) \ {n} :
                  Column(grid', m) = Column(grid, m)
    ELSE grid' = grid \/ pc = "Initialized"

\* C5: the grid is allocated first, column N-1 is written next, and then
\* the backward steps run for i = N-1 down to 1, step i writing column i-1
\* and no other column: the columns are written once each, in decreasing
\* order, and the option is priced only after column 0 has been written.
C5_ColumnsWrittenOnceDescending == []ColumnOrder /\ [][OneColumnPerStep]_vars

\* An American option on three time levels, priced after two steps with
\* dT > 0 that swept, its columns written in the order 2, 1, 0.
C5_Witness ==
    /\ pc = "Priced" /\ time_mesh_ = 3 /\ written = <<2, 1, 0>>
    /\ exercise_type_ = 0 /\ dT # Dnum(0) /\ sweeps >= 1
    /\ Column(grid, 0) # Column(grid, 1) /\ Column(grid, 1) # Column(grid, 2)

\* C1: with American exercise, every interior row j in 1..M-1 of every
\* column written holds at least the exercise value max(sign * (S_j - K), 0),
\* S_j = j * dS.
C1_AmericanAboveExercise ==
    (Solving /\ exercise_type_ = 0) =>
        \A n \in Columns : \A j \in 1..(spot_mesh_ - 1) :
            DGe(grid[j][n], ExerciseValue(j))

\* A priced American put with dT > 0 whose last step swept: in column 0 one
\* interior row sits on a positive exercise value, another lies above its
\* exercise value.
C1_Witness ==
    /\ pc = "Priced" /\ exercise_type_ = 0 /\ contract_type_ = -1
    /\ time_mesh_ >= 2 /\ dT # Dnum(0) /\ sweeps >= 1
    /\ \E j \in 1..(spot_mesh_ - 1) :
          grid[j][0] = ExerciseValue(j) /\ DGt(ExerciseValue(j), Dnum(0))
    /\ \E j \in 1..(spot_mesh_ - 1) : DGt(grid[j][0], ExerciseValue(j))

\* The SOR loop is past a sweep that changed no entry of F.
IdleSweep ==
    /\ pc = "Sor" /\ sweeps >= 1 /\ error.root
    /\ \A i \in 1..Len(error.v) : error.v[i] = Dnum(0)

\* C8: the SOR loop of every time step stops after finitely many sweeps,
\* the change norm at most tol or a did-not-converge error raised at the
\* sweep cap.  A loop that stops is never past a sweep that changed nothing
\* with its test error > tol still true: the next sweep starts from the
\* same F, RHS and coefficients, changes nothing again, and the code has no
\* cap that ends the loop.
C8_SorLoopStops == ~(IdleSweep /\ ErrorGt(error, tol_))

\* The boundary values <<row 0, row M>> of column n: the exercise values of
\* the two end nodes in the terminal column, F0 and FM - K with the
\* discount factor of the column's level in a European step, F0 and FM - K
\* as they are in an American step, the upper one kept for calls only.
BoundaryValues(n) ==
    IF n = time_mesh_ - 1
    THEN <<ExerciseValue(0), ExerciseValue(spot_mesh_)>>
    ELSE IF exercise_type_ = 1
    THEN <<DMul(F0, Discount(n)),
           IF contract_type_ = 1 THEN DSub(FM, DMul(K_, Discount(n)))
           ELSE Dnum(0)>>
    ELSE <<F0, IF contract_type_ = 1 THEN DSub(FM, K_) ELSE Dnum(0)>>

BoundaryRows ==
    Solving =>
        \A n \in Columns :
            /\ grid[0][n] = BoundaryValues(n)[1]
            /\ grid[spot_mesh_][n] = BoundaryValues(n)[2]

\* A time step that writes its column leaves it with the boundary values in
\* the rows 0 and M and with the solved vector in between, entry k of the
\* code's F (F[k + 1] here) in row k + 1, and changes no cell of another
\* column.
SolutionInInteriorRows ==
    (pc' = "Stepping" /\ written' # written) =>
        LET n == written'[Len(written')]
        IN  /\ Len(F') = spot_mesh_ - 1
            /\ \A k \in 0..(spot_mesh_ - 2) : grid'[k + 1][n] = F'[k + 1]
            /\ grid'[0][n] = BoundaryValues(n)[1]
            /\ grid'[spot_mesh_][n] = BoundaryValues(n)[2]
            /\ \A r \in 0..spot_mesh_ :
                  \A m \in (0..(time_mesh_ - 1)) \ {n} :
                      grid'[r][m] = grid[r][m]

\* C14: the rows 0 and M of every written column hold the boundary values
\* built from F0 and FM, never an entry of the solved vector, and a step
\* writes entry k of its solution F (k in 0..M-2) to row k + 1 of its own
\* column and to no other cell.
C14_BoundaryRowsNeverSolved ==
    []BoundaryRows /\ [][SolutionInInteriorRows]_vars

\* A European call with a non-zero rate after a step with dT > 0: the
\* boundary rows of the step's column differ from the neighbouring entries
\* of the solution and from the boundary rows of the terminal column.
C14_Witness ==
    /\ pc = "Stepping" /\ exercise_type_ = 1 /\ contract_type_ = 1
    /\ dT # Dnum(0) /\ Discount(jj) # Dnum(1)
    /\ grid[spot_mesh_][jj] # F[spot_mesh_ - 1]
    /\ grid[spot_mesh_][jj] # grid[spot_mesh_][time_mesh_ - 1]
    /\ grid[1][jj] = F[1] /\ grid[1][jj] # grid[0][jj]

\* C15: for a put, European or American, row 0 of every written column
\* holds the strike K and row M holds 0, whatever the rate curve.
C15_PutBoundariesFixed ==
    (Solving /\ contract_type_ = -1) =>
        \A n \in Columns :
            /\ grid[0][n] = K_
            /\ grid[spot_mesh_][n] = Dnum(0)

\* The boundary values compute_K injects for the time level n: K1 multiplies
\* a_1 by the lower one, K2 multiplies c_{M-1} by the upper one.
InjectedLower(n) == DMul(F0, Discount(n))
InjectedUpper(n) == DSub(FM, DMul(K_, Discount(n)))

\* C16: in both marches, the lower-boundary value K1 injects for a time
\* level is the value stored in row 0 of that level's column, the terminal
\* column included, and the upper-boundary value K2 injects is the value
\* stored in row M.
C16_OneDiscountingConvention ==
    (Solving /\ Len(written) >= 2) =>
        \A n \in Columns :
            /\ grid[0][n] = InjectedLower(n)
            /\ grid[spot_mesh_][n] = InjectedUpper(n)

\* C17: a constructor call whose exercise-type argument is neither 1 nor 0
\* ends in InvalidExerciseType; no such call allocates a grid or prices an
\* option.
C17_ExerciseTypeRejected ==
    (exercise_type \notin {0, 1} /\ pc # "Initialized") =>
        (pc = "Failed" /\ thrown = "InvalidExerciseType")

\* The working vector of the European march on the option's own parameters
\* once the march has solved down to level j, and the value price() reads
\* from its column 0.
RECURSIVE EuropeanF(_)
EuropeanF(j) ==
    IF j = time_mesh_ - 1
    THEN [k \in 1..(spot_mesh_ - 1) |-> Payoff(Sk(k))]
    ELSE EuropeanSolve(EuropeanF(j + 1), j + 1)

EuropeanPrice ==
    IF time_mesh_ = 1 THEN Payoff(Sk(PriceRow))
    ELSE IF PriceRow = 0 THEN DMul(F0, Discount(0))
    ELSE IF PriceRow = spot_mesh_
    THEN TimesIsCall(DSub(FM, DMul(K_, Discount(0))))
    ELSE EuropeanF(0)[PriceRow]

\* C18: the price of an American option is at least the price of the
\* European option built from the same parameters, for calls and for puts.
C18_AmericanAtLeastEuropean ==
    (ret # <<>> /\ exercise_type_ = 0) => DGe(ret[1].val, EuropeanPrice)

\* The price a European option returns is the twin's price.
EuropeanPriceIsTwin ==
    (ret # <<>> /\ exercise_type_ = 1) => ret[1].val = EuropeanPrice

\* The coefficients of interior node j at time index i, as C20 states them.
NodeA(j, i) ==
    DMul(DDiv(dT, Dnum(4)),
         DSub(DMul(DMul(volatility_, volatility_), Dnum(j * j)),
              DMul(curve(Level(i)).val, Dnum(j))))
NodeB(j, i) ==
    DNeg(DMul(DDiv(dT, Dnum(2)),
              DAdd(DMul(DMul(volatility_, volatility_), Dnum(j * j)),
                   curve(Level(i)).val)))
NodeC(j, i) ==
    DMul(DDiv(dT, Dnum(4)),
         DAdd(DMul(DMul(volatility_, volatility_), Dnum(j * j)),
              DMul(curve(Level(i)).val, Dnum(j))))

\* Entry (r, c) of the matrix A of dimension n, read off the product of A
\* with the c-th unit vector.
Entry(A, n, r, c) ==
    TriMul(A, [k \in 1..n |-> IF k = c THEN Dnum(1) ELSE Dnum(0)])[r]

\* The matrices of time index i.
MatrixC(i) == compute_C(compute_aj(i), compute_bj(i), compute_cj(i))
MatrixD(i) == compute_D(compute_aj(i), compute_bj(i), compute_cj(i))

\* The time indices of the grid whose rate lookup returns a value.
RatedIndices == {i \in 0..(time_mesh_ - 1) : curve(Level(i)).ok}

\* A has diagonals of lengths M-2, M-1, M-2 and its row j holds sub, diag
\* and super of node j, as functions of j, on the columns j-1, j, j+1 and
\* zeros elsewhere.
Aligned(A, sub(_), diag(_), super(_)) ==
    LET n == spot_mesh_ - 1
    IN  /\ Len(A.sub) = n - 1 /\ Len(A.diag) = n /\ Len(A.super) = n - 1
        /\ \A j \in 1..n : \A c \in 1..n :
              Entry(A, n, j, c) = IF c = j - 1 THEN sub(j)
                                  ELSE IF c = j THEN diag(j)
                                  ELSE IF c = j + 1 THEN super(j)
                                  ELSE Dnum(0)

StatedK(i) ==
    LET m == spot_mesh_ - 1
    IN  <<DAdd(DMul(NodeA(1, i - 1), InjectedLower(i - 1)),
               DMul(NodeA(1, i), InjectedLower(i))),
          DAdd(DMul(NodeC(m, i - 1), InjectedUpper(i - 1)),
               DMul(NodeC(m, i), InjectedUpper(i)))>>

\* C21: at the step of level i the pair (K1, K2) weights the lower boundary
\* value by a_1 and the upper one by c_{M-1} = (dT/4)(s^2 (M-1)^2 + r (M-1)),
\* each at the levels i - 1 and i; K1 is added to the first entry of RHS
\* only, K2 to the last only, and K2 = 0 for a put.
C21_BoundaryInjection ==
    (BetweenSteps /\ jj > 0 /\ spot_mesh_ >= 3 /\ ~StepThrows(jj)) =>
        LET K == compute_K(jj)
            DF == TriMul(MatrixD(jj), F)
            rhs == PlusPair(DF, K)
        IN  /\ K = StatedK(jj)
            /\ contract_type_ = -1 => K[2] = Dnum(0)
            /\ \A k \in 1..(spot_mesh_ - 1) :
                  rhs[k] = IF k = 1 THEN DAdd(DF[k], K[1])
                           ELSE IF k = spot_mesh_ - 1 THEN DAdd(DF[k], K[2])
                           ELSE DF[k]

\* The unconstrained update of entry j in a sweep at level i from the
\* previous sweep's vector Fp and the entry Fn1 the same sweep has computed
\* for j - 1.
Unconstrained(j, i, Fp, Fn1) ==
    LET n == spot_mesh_ - 1
        one_b == DSub(Dnum(1), NodeB(j, i))
        lower == IF j = 1 THEN Dnum(0) ELSE DMul(NodeA(j, i), Fn1)
        upper == IF j = n THEN Dnum(0) ELSE DMul(NodeC(j, i), Fp[j + 1])
    IN  DAdd(Fp[j],
             DMul(DDiv(w_, one_b),
                  DAdd(DSub(DAdd(RHS[j], lower), DMul(one_b, Fp[j])), upper)))

\* A sweep leaves in every entry j the larger of the exercise value of node
\* j and the unconstrained update that reads entry j - 1 from the sweep's
\* own result.
ForwardGaussSeidel ==
    (pc = "Sor" /\ sweeps' = sweeps + 1) =>
        /\ Len(F') = spot_mesh_ - 1
        /\ \A j \in 1..(spot_mesh_ - 1) :
              LET u == Unconstrained(j, jj, F, IF j = 1 THEN Dnum(0)
                                                ELSE F'[j - 1])
              IN  F'[j] = IF DGe(ExerciseValue(j), u) THEN ExerciseValue(j)
                          ELSE u

C24_AcceptedMeshesAreSafe ==
    (pc # "Initialized" /\ Validate = "none") =>
        /\ pc # "Undefined"
        /\ thrown # "bad_alloc"

\* C25: when the curve's domain covers [T0, T] and the other arguments are
\* valid, every rate lookup of every time step is at a time inside [T0, T]
\* and construction does not end in InvalidTime.
C25_CoveringCurveSuffices ==
    (/\ pc # "Initialized" /\ Validate = "none" /\ spot_mesh_ >= 3
     /\ DLe(tMin(interest_rate_), T0_) /\ DLe(T_, tMax(interest_rate_))) =>
        /\ thrown # "InvalidTime"
        /\ \A i \in 0..(time_mesh_ - 1) :
              time_mesh_ >= 2 => (DLe(T0_, Level(i)) /\ DLe(Level(i), T_))

\* C30: an American time step writes its column only after at least one
\* sweep of its SOR loop, whatever the tolerance.
C30_EveryStepSweeps ==
    (pc = "Stepping" /\ exercise_type_ = 0) => sweeps >= 1

-----------------------------------------------------------------------------
(* Calls on a constructed Option: price(), delta(S), gamma(), theta(),      *)
(* vega(h), rho(h) and solve().  vega and rho construct a temporary Option, *)
(* whose constructor runs as the steps of the state machine above while     *)
(* call.this keeps the members of the Option the call was made on.          *)

\* The members of *this.
This ==
    [pc |-> pc, exercise_type |-> exercise_type,
     contract_type_ |-> contract_type_, exercise_type_ |-> exercise_type_,
     T_ |-> T_, K_ |-> K_, T0_ |-> T0_, S0_ |-> S0_,
     volatility_ |-> volatility_, time_mesh_ |-> time_mesh_,
     spot_mesh_ |-> spot_mesh_, interest_rate_ |-> interest_rate_,
     tol_ |-> tol_, w_ |-> w_, dT |-> dT, dS |-> dS, F0 |-> F0, FM |-> FM,
     grid |-> grid, F |-> F, jj |-> jj, RHS |-> RHS, error |-> error,
     sweeps |-> sweeps, written |-> written, thrown |-> thrown]

\* The members of *this after a call that built the temporary tmp, had the
\* temporary been *this itself.
ThisShared(this, tmp) == tmp

\* The members of *this after a call that built the temporary tmp: tmp is a
\* local object of its own.
ThisAfter(this, tmp) == this

\* No call is in progress on the constructed Option.
Idle == pc = "Priced" /\ call.fn = "Option"

\* The rows and columns lie inside the grid.
OnGrid(rows, cols) ==
    rows \subseteq 0..spot_mesh_ /\ cols \subseteq 0..(time_mesh_ - 1)

\* What a read of a grid cell outside the grid can produce: some value, or
\* the end of the program.
Garbage == {Dnum(0), NaN}

\* A member function reads the cells rows x cols and returns val: the
\* value if the cells are inside the grid, any outcome of a read outside it
\* otherwise.
Reads(fn, rows, cols, val) ==
    /\ IF OnGrid(rows, cols)
       THEN /\ ret' = <<[fn |-> fn, rows |-> rows, cols |-> cols,
                         val |-> val]>>
            /\ pc' = pc
       ELSE \/ /\ pc' = "Undefined"
               /\ ret' = <<>>
            \/ /\ \E v \in Garbage :
                     ret' = <<[fn |-> fn, rows |-> rows, cols |-> cols,
                               val |-> v]>>
               /\ pc' = pc
    /\ UNCHANGED <<optFields, optDerived, optWork, thrown, call>>

\* The spots delta is asked at: below the first node's half step, at S0,
\* and above the last node's half step.
DeltaSpots == {Dbl(1, 10), Dnum(1), Dbl(49, 10)}

\* The relative bumps h of vega and rho.
Bumps == {Dnum(1), Dnum(-1)}

\* price() called again.
CallPrice ==
    /\ Idle
    /\ Reads("price", {PriceRow}, {0}, grid[PriceRow][0])

\* delta(S).
CallDelta ==
    /\ Idle
    /\ \E S \in DeltaSpots :
        LET row == DRound(DDiv(S, dS))
        IN  Reads("delta", {row + 1, row - 1}, {0},
                  DDiv(DSub(grid[row + 1][0], grid[row - 1][0]),
                       DMul(Dnum(2), dS)))

\* gamma().
CallGamma ==
    /\ Idle
    /\ LET row == PriceRow
       IN  Reads("gamma", {row + 1, row - 1, row}, {0},
                 DDiv(DDiv(DSub(DAdd(grid[row + 1][0], grid[row - 1][0]),
                                DMul(Dnum(2), grid[row][0])), dS), dS))

\* theta().
CallTheta ==
    /\ Idle
    /\ LET row == PriceRow
       IN  Reads("theta", {row}, {1, 0},
                 DDiv(DSub(grid[row][1], grid[row][0]), dT))

\* The re-solves exact arithmetic on 32-bit integers carries: European
\* ones, and American ones without a sweep that moves F.
Resolvable == exercise_type_ = 1 \/ dT = Dnum(0) \/ time_mesh_ = 1

\* The members of a temporary Option before its constructor body runs,
\* built from the arguments vega and rho pass: the members of *this, the
\* given volatility and curve, and the default tol and w.
Temporary(vol, ir) ==
    /\ exercise_type' = exercise_type_
    /\ volatility_' = vol
    /\ interest_rate_' = ir
    /\ tol_' = DefaultRelaxation[1] /\ w_' = DefaultRelaxation[2]
    /\ dT' = Dnum(0) /\ dS' = Dnum(0) /\ F0' = Dnum(0) /\ FM' = Dnum(0)
    /\ grid' = <<>> /\ F' = <<>> /\ jj' = 0 /\ RHS' = <<>>
    /\ error' = Literal(Dnum(0)) /\ sweeps' = 0 /\ written' = <<>>
    /\ pc' = "Initialized"
    /\ ret' = <<>>
    /\ UNCHANGED <<contract_type_, exercise_type_, T_, K_, T0_, S0_,
                   time_mesh_, spot_mesh_, thrown>>

\* vega(h) up to the constructor body of its temporary.
CallVega ==
    /\ Idle /\ Resolvable
    /\ \E h \in Bumps :
        LET shift == DMul(volatility_, h)
        IN  /\ call' = [fn |-> "vega", abs |-> call.abs, h |-> h,
                        shift |-> shift, this |-> This]
            /\ Temporary(DAdd(volatility_, shift), interest_rate_)

\* rho(h) up to the constructor body of its temporary.
CallRho ==
    /\ Idle /\ Resolvable
    /\ \E h \in Bumps :
        LET shift == DMul(h, interest_rate_[1][2])
            ir_tmp == [k \in 1..Len(interest_rate_) |->
                          <<interest_rate_[k][1],
                            DAdd(interest_rate_[k][2], shift)>>]
        IN  /\ call' = [fn |-> "rho", abs |-> call.abs, h |-> h,
                        shift |-> shift, this |-> This]
            /\ Temporary(volatility_, ir_tmp)

\* The variables hold the members m again.
Members(m) ==
    /\ exercise_type' = m.exercise_type
    /\ contract_type_' = m.contract_type_
    /\ exercise_type_' = m.exercise_type_
    /\ T_' = m.T_ /\ K_' = m.K_ /\ T0_' = m.T0_ /\ S0_' = m.S0_
    /\ volatility_' = m.volatility_
    /\ time_mesh_' = m.time_mesh_ /\ spot_mesh_' = m.spot_mesh_
    /\ interest_rate_' = m.interest_rate_
    /\ tol_' = m.tol_ /\ w_' = m.w_
    /\ dT' = m.dT /\ dS' = m.dS /\ F0' = m.F0 /\ FM' = m.FM
    /\ grid' = m.grid /\ F' = m.F /\ jj' = m.jj /\ RHS' = m.RHS
    /\ error' = m.error /\ sweeps' = m.sweeps /\ written' = m.written

\* vega(h) and rho(h) after the constructor of the temporary: the quotient
\* of the two prices is returned, or the exception of the constructor
\* leaves the call.
ReturnBumped ==
    /\ call.fn \in {"vega", "rho"} /\ pc \in {"Priced", "Failed"}
    /\ LET this == call.this
           base == this.grid[PriceRow][0]
       IN  /\ ret' = IF pc = "Failed"
                     THEN <<[fn |-> call.fn, h |-> call.h, exc |-> thrown]>>
                     ELSE <<[fn |-> call.fn, h |-> call.h, base |-> base,
                             val |-> DDiv(DSub(grid[PriceRow][0], base),
                                          call.shift)]>>
           /\ Members(ThisAfter(this, This))
    /\ pc' = "Priced" /\ thrown' = "none"
    /\ call' = [fn |-> "Option", abs |-> call.abs]

\* solve() called on the constructed Option, up to its first statement.
SolveAgain ==
    /\ Idle
    /\ call' = [fn |-> "solve", abs |-> call.abs, this |-> This]
    /\ pc' = "GridAllocated"
    /\ written' = <<>>
    /\ ret' = <<>>
    /\ UNCHANGED <<optFields, optDerived, grid, F, jj, RHS, error, sweeps,
                   thrown>>

\* solve() returns.
SolveReturns ==
    /\ call.fn = "solve" /\ pc = "Priced"
    /\ ret' = <<[fn |-> "solve"]>>
    /\ call' = [fn |-> "Option", abs |-> call.abs]
    /\ UNCHANGED <<pc, optFields, optDerived, optWork, thrown>>

\* The Options the calls are made on: European ones with dT > 0, American
\* ones with dT > 0 and a single time level or a coarse tolerance, and
\* American ones with dT = 0 on meshes down to one step.
CalledMeshes == {<<1, 1>>, <<2, 1>>, <<2, 2>>, <<1, 3>>, <<2, 3>>}
CalledArgs ==
    Args({1, -1}, {1}, {<<0, 1>>}, {<<1, 3>>, <<2, 3>>}, {DefaultRelaxation})
    \cup Args({1, -1}, {0}, {<<0, 1>>}, {<<1, 3>>, <<2, 3>>},
              {<<Dnum(1), Dnum(1)>>})
    \cup Args({1, -1}, {0}, {<<1, 1>>}, CalledMeshes, {<<Dnum(1), Dnum(1)>>})

GreeksInit ==
    /\ \E in \in CalledArgs :
        /\ exercise_type = in.et
        /\ contract_type_ = in.ct
        /\ exercise_type_ = BoolOf(in.et)
        /\ T_ = Dnum(in.mat[2]) /\ T0_ = Dnum(in.mat[1])
        /\ K_ = Dnum(in.K) /\ S0_ = Dnum(in.S0)
        /\ volatility_ = Dnum(in.vol)
        /\ time_mesh_ = in.N /\ spot_mesh_ = in.M
        /\ interest_rate_ = in.c
        /\ tol_ = in.tw[1] /\ w_ = in.tw[2]
    /\ dT = Dnum(0) /\ dS = Dnum(0) /\ F0 = Dnum(0) /\ FM = Dnum(0)
    /\ grid = <<>> /\ F = <<>> /\ jj = 0 /\ RHS = <<>>
    /\ error = Literal(Dnum(0)) /\ sweeps = 0 /\ written = <<>>
    /\ thrown = "none"
    /\ pc = "Initialized"
    /\ call \in [fn : {"Option"}, abs : AbsOverloads]
    /\ ret = <<>>

GreeksNext ==
    \/ Construct
    \/ SolveTerminal
    \/ EuropeanStep
    \/ AmericanBegin
    \/ Sweep
    \/ AmericanWrite
    \/ SmallMeshStep
    \/ Finish
    \/ CallPrice
    \/ CallDelta
    \/ CallGamma
    \/ CallTheta
    \/ CallVega
    \/ CallRho
    \/ ReturnBumped
    \/ SolveAgain
    \/ SolveReturns

GreeksSpec == GreeksInit /\ [][GreeksNext]_vars

-----------------------------------------------------------------------------
(* Claims on the calls made on a constructed Option, checked under          *)
(* GreeksSpec                                                               *)

Bumped == call.fn \in {"vega", "rho"}

\* What C23 takes the calls to leave alone, in the members m.
Kept(m) ==
    <<m.grid, m.F, m.volatility_, m.interest_rate_, m.time_mesh_,
      m.spot_mesh_, m.dT, m.dS, m.T_, m.T0_, m.K_, m.S0_, m.tol_, m.w_>>

\* A call that returns leaves the Option as it was: a read changes nothing,
\* vega and rho keep the Option beside their temporary while its
\* constructor runs and hand it back untouched.
ReadersLeaveOption ==
    /\ (Idle /\ Idle') => Kept(This') = Kept(This)
    /\ (Idle /\ Bumped') => Kept(call'.this) = Kept(This)
    /\ (Bumped /\ Bumped') => call'.this = call.this
    /\ (Bumped /\ Idle') => Kept(This') = Kept(call.this)

\* After vega or rho has returned, price() reads the value the call took as
\* the price of the Option.
PriceAfterIsPriceBefore ==
    (Idle /\ ret # <<>> /\ ret[1].fn \in {"vega", "rho"}
          /\ "base" \in DOMAIN ret[1]) =>
        grid[PriceRow][0] = ret[1].base

\* C23: price(), delta(S), gamma(), theta(), vega(h) and rho(h), in any
\* order, leave the grid, F, the volatility, the rate curve and the mesh
\* parameters of the Option unchanged, so that price() returns the same
\* value before and after; vega and rho re-solve on a temporary Option of
\* their own.
C23_ReadingLeavesThePricer ==
    []PriceAfterIsPriceBefore /\ [][ReadersLeaveOption]_vars

\* vega has returned a finite non-zero quotient on an option with dT > 0:
\* its temporary was solved to another price and is gone.
C23_Witness ==
    /\ Idle /\ ret # <<>> /\ ret[1].fn = "vega" /\ "val" \in DOMAIN ret[1]
    /\ IsFinite(ret[1].val) /\ ret[1].val # Dnum(0)
    /\ dT # Dnum(0) /\ time_mesh_ >= 2

\* C26: solve() called again on a constructed Option runs the whole chain
\* from the terminal payoff to the end and leaves the grid equal, cell for
\* cell, to the grid it found, with F again of length M - 1.
C26_SolveIsIdempotent ==
    call.fn = "solve" =>
        /\ pc \notin {"Failed", "Undefined"}
        /\ written # <<>> => written[1] = time_mesh_ - 1
        /\ pc = "Priced" =>
              /\ grid = call.this.grid
              /\ Len(F) = spot_mesh_ - 1
              /\ written = Descending(time_mesh_)

\* solve() has run again to its end on an American option with dT > 0 whose
\* step swept and left column 0 different from the terminal column.
C26_Witness ==
    /\ call.fn = "solve" /\ pc = "Priced"
    /\ exercise_type_ = 0 /\ dT # Dnum(0) /\ time_mesh_ = 2 /\ sweeps >= 1
    /\ Column(grid, 0) # Column(grid, 1)

\* C27: the temporary of vega(h) differs from the Option only in its
\* volatility and the temporary of rho(h) only in its rate curve: contract
\* type, exercise type, T, K, T0, both mesh sizes, S0 and, for an American
\* option, tol and w are those of the Option.
C27_TemporaryDiffersInOneMember ==
    Bumped =>
        LET this == call.this
        IN  /\ contract_type_ = this.contract_type_
            /\ exercise_type_ = this.exercise_type_
            /\ T_ = this.T_ /\ K_ = this.K_ /\ T0_ = this.T0_
            /\ time_mesh_ = this.time_mesh_ /\ spot_mesh_ = this.spot_mesh_
            /\ S0_ = this.S0_
            /\ call.fn = "vega" => interest_rate_ = this.interest_rate_
            /\ call.fn = "rho" => volatility_ = this.volatility_
            /\ exercise_type_ = 0 => (tol_ = this.tol_ /\ w_ = this.w_)

\* C28: rho(h) with h # 0 divides the price difference by a non-zero
\* shift h * (rate of the first control point).
C28_RhoShiftIsNonZero ==
    (call.fn = "rho" /\ call.h # Dnum(0)) => call.shift # Dnum(0)

\* C29: delta(S) for 0 < S < 5 * S0, gamma() and theta() read grid cells
\* inside the rows 0..M and the columns 0..N-1 only.
C29_GreeksReadInsideTheGrid ==
    (ret # <<>> /\ ret[1].fn \in {"delta", "gamma", "theta"}) =>
        OnGrid(ret[1].rows, ret[1].cols)

=============================================================================
